---- MODULE Spec2Model ----
(***************************************************************************)
(* Model of the rustExample Tranalyzer2 plugin (src/src/lib.rs): the two   *)
(* payload extractors extract_phpid and extract_tls_sni, written over the  *)
(* t2plugin SliceReader byte cursor, and the per-flow hooks claim_l4_info   *)
(* and on_flow_terminate.                                                  *)
(*                                                                         *)
(* A payload is a sequence of bytes (0..255).  A Rust &str / String is     *)
(* modelled by its UTF-8 bytes; str::from_utf8 validates and returns the   *)
(* same bytes.  The cursor operations return records [ok, val, pos]: ok is *)
(* the Result's Ok/Err, pos the offset after the call.                     *)
(***************************************************************************)
EXTENDS Integers, Sequences, FiniteSets, TLC

VARIABLES
    byte_count,   \* RustExample.byte_count
    php_ids,      \* RustExample.php_ids : set of <<set_cookie, value>>
    tls_sni,      \* RustExample.tls_sni : bytes of the String
    phase,        \* "off" | "open" | "closed" : life of the flow
    output,       \* sequence of values emitted by on_flow_terminate
    last,         \* record of the last claim_l4_info call (packet, extractor results)
    sni_results,  \* results returned by extract_tls_sni over the flow, in order
    php_results,  \* set of pairs returned by extract_phpid over the flow
    payload,      \* the slice under the stepwise extractor run
    hs,           \* state of the stepwise extract_phpid run
    ts            \* state of the stepwise extract_tls_sni run

vars == <<byte_count, php_ids, tls_sni, phase, output, last, sni_results,
          php_results, payload, hs, ts>>

flowVars == <<byte_count, php_ids, tls_sni, phase, output, last, sni_results,
              php_results>>

parseVars == <<payload, hs, ts>>

-----------------------------------------------------------------------------
(* Byte strings of the source's literals.                                  *)

B_GET == <<71, 69, 84, 32>>                                   \* b"GET "
B_POST == <<80, 79, 83, 84, 32>>                              \* b"POST "
B_HTTP == <<72, 84, 84, 80, 47>>                              \* b"HTTP/"
B_Cookie == <<67, 111, 111, 107, 105, 101, 58, 32>>           \* b"Cookie: "
B_SetCookie == <<83, 101, 116, 45>> \o B_Cookie               \* b"Set-Cookie: "
B_PHPSESSID == <<80, 72, 80, 83, 69, 83, 83, 73, 68, 61>>     \* b"PHPSESSID="

\* slice.starts_with(prefix)
StartsWith(s, p) ==
    /\ Len(p) <= Len(s)
    /\ \A i \in 1..Len(p) : s[i] = p[i]

\* the suffix of s after its first n elements
Drop(s, n) == SubSeq(s, n + 1, Len(s))

Min(a, b) == IF a <= b THEN a ELSE b

\* Option::None and Option::Some of the two extractors
NoPhpid == [some |-> FALSE, set_cookie |-> FALSE, val |-> <<>>]
SomePhpid_asRequest(sc, v) == [some |-> TRUE, set_cookie |-> FALSE, val |-> v]
SomePhpid(sc, v) == [some |-> TRUE, set_cookie |-> sc, val |-> v]
NoSni == [some |-> FALSE, val |-> <<>>]
SomeSni(v) == [some |-> TRUE, val |-> v]

-----------------------------------------------------------------------------
(* SliceReader (t2plugin::slread), the byte cursor of spec section 4.1.     *)

CursorErr(pos) == [ok |-> FALSE, val |-> 0, pos |-> pos]

ReadU8(s, pos) ==
    IF pos + 1 <= Len(s)
    THEN [ok |-> TRUE, val |-> s[pos + 1], pos |-> pos + 1]
    ELSE CursorErr(pos)

ReadU16(s, pos) ==
    IF pos + 2 <= Len(s)
    THEN [ok |-> TRUE, val |-> s[pos + 1] * 256 + s[pos + 2], pos |-> pos + 2]
    ELSE CursorErr(pos)

ReadU24(s, pos) ==
    IF pos + 3 <= Len(s)
    THEN [ok |-> TRUE,
          val |-> (s[pos + 1] * 256 + s[pos + 2]) * 256 + s[pos + 3],
          pos |-> pos + 3]
    ELSE CursorErr(pos)

ReadBytes(s, pos, n) ==
    IF pos + n <= Len(s)
    THEN [ok |-> TRUE, val |-> SubSeq(s, pos + 1, pos + n), pos |-> pos + n]
    ELSE [ok |-> FALSE, val |-> <<>>, pos |-> pos]

\* bytes up to and excluding the next line feed; the offset moves past it
ReadLine(s, pos) ==
    LET ends == {i \in (pos + 1)..Len(s) : s[i] = 10} IN
    IF ends = {}
    THEN [ok |-> FALSE, val |-> <<>>, pos |-> pos]
    ELSE LET e == CHOOSE i \in ends : \A j \in ends : i <= j
         IN [ok |-> TRUE, val |-> SubSeq(s, pos + 1, e - 1), pos |-> e]

Skip(s, pos, n) ==
    IF pos + n <= Len(s)
    THEN [ok |-> TRUE, val |-> 0, pos |-> pos + n]
    ELSE CursorErr(pos)

\* reset the offset to `to`; fails only if `to` exceeds the slice length
Rewind(s, pos, to) ==
    IF to <= Len(s)
    THEN [ok |-> TRUE, val |-> 0, pos |-> to]
    ELSE CursorErr(pos)

\* TrimBytes::trim: the slice without leading and trailing ASCII whitespace
IsSpace(b) == b \in {9, 10, 12, 13, 32}

RECURSIVE TrimStart(_)
TrimStart(s) ==
    IF s # <<>> /\ IsSpace(Head(s)) THEN TrimStart(Tail(s)) ELSE s

RECURSIVE TrimEnd(_)
TrimEnd(s) ==
    IF s # <<>> /\ IsSpace(s[Len(s)]) THEN TrimEnd(SubSeq(s, 1, Len(s) - 1)) ELSE s

Trim(s) == TrimEnd(TrimStart(s))

-----------------------------------------------------------------------------
(* Standard library pieces the extractors use.                             *)

IsCont(b) == b >= 128 /\ b <= 191

\* str::from_utf8(..).is_ok(): well-formed UTF-8 (Unicode table 3-7)
RECURSIVE Utf8Valid(_)
Utf8Valid(s) ==
    IF s = <<>> THEN TRUE
    ELSE LET b == s[1]
             n == Len(s)
             lo2 == IF b = 224 THEN 160 ELSE IF b = 240 THEN 144 ELSE 128
             hi2 == IF b = 237 THEN 159 ELSE IF b = 244 THEN 143 ELSE 191
             width == IF b <= 127 THEN 1
                      ELSE IF b >= 194 /\ b <= 223 THEN 2
                      ELSE IF b >= 224 /\ b <= 239 THEN 3
                      ELSE IF b >= 240 /\ b <= 244 THEN 4
                      ELSE 0
         IN /\ width > 0
            /\ n >= width
            /\ width >= 2 => (s[2] >= lo2 /\ s[2] <= hi2)
            /\ \A i \in 3..width : IsCont(s[i])
            /\ Utf8Valid(Drop(s, width))

\* slice.split(|&e| e == sep): the pieces between separators, in order
RECURSIVE Split(_, _)
Split(s, sep) ==
    LET at == {i \in 1..Len(s) : s[i] = sep} IN
    IF at = {} THEN <<s>>
    ELSE LET e == CHOOSE i \in at : \A j \in at : i <= j
         IN <<SubSeq(s, 1, e - 1)>> \o Split(Drop(s, e), sep)

\* &slice[from ..]: panics when from > len
SliceFrom(s, from) ==
    [ok |-> from <= Len(s), val |-> Drop(s, Min(from, Len(s)))]

-----------------------------------------------------------------------------
(* extract_phpid (lib.rs 79-115), one step per cursor read.                *)
(* State: pc, the cursor offset pos, the returned Option res, and the      *)
(* observers panic (an out-of-range slice expression was evaluated), fail  *)
(* (a cursor operation returned Err), iters (loop bodies entered),         *)
(* cookie_lines (Cookie/Set-Cookie lines inspected) and head (offset at    *)
(* the previous entry of the header loop, -1 before the first).            *)

PhpidStart ==
    [pc |-> "first", pos |-> 0, res |-> NoPhpid, panic |-> FALSE,
     fail |-> FALSE, iters |-> 0, cookie_lines |-> 0, head |-> -1]

\* line 82: only HTTP responses, GET and POST requests
IsHttpStart_any(line) == TRUE

IsHttpStart(line) ==
    StartsWith(line, B_GET) \/ StartsWith(line, B_POST) \/ StartsWith(line, B_HTTP)

\* lines 92-100: (set_cookie, len) of a cookie header line
CookieHeader_len12(line) ==
    IF StartsWith(line, B_Cookie)
    THEN [match |-> TRUE, set_cookie |-> FALSE, len |-> 12]
    ELSE IF StartsWith(line, B_SetCookie)
    THEN [match |-> TRUE, set_cookie |-> TRUE, len |-> 12]
    ELSE [match |-> FALSE, set_cookie |-> FALSE, len |-> 0]

CookieHeader(line) ==
    IF StartsWith(line, B_Cookie)
    THEN [match |-> TRUE, set_cookie |-> FALSE, len |-> 8]
    ELSE IF StartsWith(line, B_SetCookie)
    THEN [match |-> TRUE, set_cookie |-> TRUE, len |-> 12]
    ELSE [match |-> FALSE, set_cookie |-> FALSE, len |-> 0]

\* lines 109-110: the value of a cookie piece that starts with PHPSESSID=
PhpidValue_from9(cookie, set_cookie) ==
    LET phpid == SliceFrom(cookie, 9) IN
    [found |-> TRUE,
     res |-> IF phpid.ok /\ Utf8Valid(phpid.val)
             THEN SomePhpid(set_cookie, phpid.val) ELSE NoPhpid,
     panic |-> ~phpid.ok]

PhpidValue(cookie, set_cookie) ==
    LET phpid == SliceFrom(cookie, 10) IN
    [found |-> TRUE,
     res |-> IF phpid.ok /\ Utf8Valid(phpid.val)
             THEN SomePhpid(set_cookie, phpid.val) ELSE NoPhpid,
     panic |-> ~phpid.ok]

\* lines 102-111: the for loop over the pieces of the cookie line
RECURSIVE ScanCookies(_, _)
ScanCookies(pieces, set_cookie) ==
    IF pieces = <<>>
    THEN [found |-> FALSE, res |-> NoPhpid, panic |-> FALSE]
    ELSE LET cookie == Trim(Head(pieces)) IN
         IF ~StartsWith(cookie, B_PHPSESSID)
         THEN ScanCookies(Tail(pieces), set_cookie)
         ELSE PhpidValue(cookie, set_cookie)

\* line 112: where control goes after a cookie line without PHPSESSID
AfterCookieLine_continue == "hdr"

AfterCookieLine == "done"

\* lines 89-91: the trimmed line that ends the HTTP header
EndOfHeader_never(line) == FALSE

EndOfHeader(line) == Len(line) = 0

\* lines 81-84
PhpidFirstLine(s, st) ==
    LET r == ReadLine(s, st.pos) IN
    IF ~r.ok THEN [st EXCEPT !.pc = "done", !.fail = TRUE]
    ELSE IF ~IsHttpStart(r.val) THEN [st EXCEPT !.pc = "done", !.pos = r.pos]
    ELSE [st EXCEPT !.pc = "hdr", !.pos = r.pos]

\* lines 87-113: one iteration of the header loop
PhpidHeaderLine(s, st) ==
    LET r == ReadLine(s, st.pos)
        line == Trim(r.val)
        hdr == CookieHeader(line)
        rest == SliceFrom(line, hdr.len)
        scan == ScanCookies(Split(rest.val, 59), hdr.set_cookie)
        in == [st EXCEPT !.iters = @ + 1, !.head = st.pos]
    IN
    IF ~r.ok THEN [in EXCEPT !.pc = "done", !.fail = TRUE]
    ELSE IF EndOfHeader(line) THEN [in EXCEPT !.pc = "done", !.pos = r.pos]
    ELSE IF ~hdr.match THEN [in EXCEPT !.pos = r.pos]
    ELSE IF ~rest.ok
    THEN [in EXCEPT !.pc = "done", !.pos = r.pos, !.panic = TRUE,
                    !.cookie_lines = @ + 1]
    ELSE IF scan.found
    THEN [in EXCEPT !.pc = "done", !.pos = r.pos, !.res = scan.res,
                    !.panic = scan.panic, !.cookie_lines = @ + 1]
    ELSE [in EXCEPT !.pc = AfterCookieLine, !.pos = r.pos,
                    !.cookie_lines = @ + 1]

PhpidStep(s, st) ==
    IF st.pc = "first" THEN PhpidFirstLine(s, st) ELSE PhpidHeaderLine(s, st)

RECURSIVE PhpidRun(_, _)
PhpidRun(s, st) ==
    IF st.pc = "done" THEN st ELSE PhpidRun(s, PhpidStep(s, st))

\* extract_phpid(&mut slr) on a cursor at offset 0: the final state
extract_phpid(s) == PhpidRun(s, PhpidStart)

-----------------------------------------------------------------------------
(* extract_tls_sni (lib.rs 118-187), one step per cursor operation.        *)
(* State: pc, the cursor offset pos, the locals record_type,               *)
(* handshake_type, extension_type, len, handshakes_end, extensions_end,    *)
(* the returned Option res, and the observers fail (a cursor operation     *)
(* returned Err), iters (loop bodies entered), begin (offset the run       *)
(* started at) and rec_head / hs_head / ext_head (offset at the previous   *)
(* entry of the record / handshake / extension loop body, -1 before).      *)

HANDSHAKE == 22
CLIENT_HELLO == 1
SERVER_NAME == 0

\* lines 55-65
TlsVersion_from_u16_tls13(val) ==
    CASE val = 768 -> "SSLv3"
      [] val = 769 -> "TLSv1"
      [] val = 770 -> "TLSv11"
      [] val = 771 -> "TLSv12"
      [] val = 772 -> "TLSv13"
      [] OTHER -> "UNKNOWN"

TlsVersion_from_u16(val) ==
    CASE val = 768 -> "SSLv3"
      [] val = 769 -> "TLSv1"
      [] val = 770 -> "TLSv11"
      [] val = 771 -> "TLSv12"
      [] OTHER -> "UNKNOWN"

TlsStart(at) ==
    [pc |-> "rec_type", pos |-> at, begin |-> at,
     record_type |-> 0, handshake_type |-> 0, extension_type |-> 0, len |-> 0,
     handshakes_end |-> 0, extensions_end |-> 0,
     res |-> NoSni, fail |-> FALSE, iters |-> 0,
     rec_head |-> -1, hs_head |-> -1, ext_head |-> -1,
     unskipped |-> 0, hello_end |-> 0]

\* tryopt!(Err(_)): return None
TlsNone(st) == [st EXCEPT !.pc = "done", !.fail = TRUE]

\* `slr.skip(n);` as a statement: the Result is dropped, the next statement runs
SkipIgnored_rewind(s, st, n, next) ==
    LET k == Rewind(s, st.pos, n) IN
    [st EXCEPT !.pc = next, !.pos = k.pos, !.fail = @ \/ ~k.ok]

SkipIgnored(s, st, n, next) ==
    LET k == Skip(s, st.pos, n) IN
    [st EXCEPT !.pc = next, !.pos = k.pos, !.fail = @ \/ ~k.ok]

\* lines 135 and 147: the skip of an ignored record or handshake message by
\* its declared length; unskipped counts the skips that did not move
DeclaredSkip(s, st, next) ==
    LET k == SkipIgnored(s, st, st.len, next) IN
    [k EXCEPT !.unskipped = IF k.pos = st.pos + st.len THEN @ ELSE @ + 1]

\* lines 129-131 and 153-155: a TLS version field
VersionField(s, st, next) ==
    LET r == ReadU16(s, st.pos) IN
    IF ~r.ok THEN TlsNone(st)
    ELSE IF TlsVersion_from_u16(r.val) = "UNKNOWN"
    THEN [st EXCEPT !.pc = "done", !.pos = r.pos]
    ELSE [st EXCEPT !.pc = next, !.pos = r.pos]

\* `let len = tryopt!(slr.read_u8()) as usize;`
LenU8(s, st, next) ==
    LET r == ReadU8(s, st.pos) IN
    IF ~r.ok THEN TlsNone(st)
    ELSE [st EXCEPT !.pc = next, !.pos = r.pos, !.len = r.val]

\* `let len = tryopt!(slr.read_u16()) as usize;`
LenU16(s, st, next) ==
    LET r == ReadU16(s, st.pos) IN
    IF ~r.ok THEN TlsNone(st)
    ELSE [st EXCEPT !.pc = next, !.pos = r.pos, !.len = r.val]

\* line 127
RecordType(s, st) ==
    LET r == ReadU8(s, st.pos)
        in == [st EXCEPT !.iters = @ + 1, !.rec_head = st.pos]
    IN IF ~r.ok THEN TlsNone(in)
       ELSE [in EXCEPT !.pc = "rec_ver", !.pos = r.pos, !.record_type = r.val]

\* lines 132-139
RecordLen(s, st) ==
    LET r == ReadU16(s, st.pos) IN
    IF ~r.ok THEN TlsNone(st)
    ELSE IF st.record_type # HANDSHAKE
    THEN [st EXCEPT !.pc = "rec_skip", !.pos = r.pos, !.len = r.val]
    ELSE [st EXCEPT !.pc = "hs_loop", !.pos = r.pos, !.len = r.val,
                    !.handshakes_end = r.pos + r.val]

\* line 142
HandshakeLoop(st) ==
    IF st.pos < st.handshakes_end
    THEN [st EXCEPT !.pc = "hs_type"] ELSE [st EXCEPT !.pc = "rec_type"]

\* line 143
HandshakeType(s, st) ==
    LET r == ReadU8(s, st.pos)
        in == [st EXCEPT !.iters = @ + 1, !.hs_head = st.pos]
    IN IF ~r.ok THEN TlsNone(in)
       ELSE [in EXCEPT !.pc = "hs_len", !.pos = r.pos, !.handshake_type = r.val]

\* lines 144-149
HandshakeLen(s, st) ==
    LET r == ReadU24(s, st.pos) IN
    IF ~r.ok THEN TlsNone(st)
    ELSE [st EXCEPT !.pc = IF st.handshake_type # CLIENT_HELLO
                           THEN "hs_skip" ELSE "ch_ver",
                    !.pos = r.pos, !.len = r.val, !.hello_end = r.pos + r.val]

\* lines 166-167
ExtensionsLen(s, st) ==
    LET r == ReadU16(s, st.pos) IN
    IF ~r.ok THEN TlsNone(st)
    ELSE [st EXCEPT !.pc = "ext_loop", !.pos = r.pos, !.len = r.val,
                    !.extensions_end = r.pos + r.val]

\* line 170
ExtensionLoop(st) ==
    IF st.pos < st.extensions_end
    THEN [st EXCEPT !.pc = "ext_type"] ELSE [st EXCEPT !.pc = "hs_loop"]

\* line 171
ExtensionType(s, st) ==
    LET r == ReadU16(s, st.pos)
        in == [st EXCEPT !.iters = @ + 1, !.ext_head = st.pos]
    IN IF ~r.ok THEN TlsNone(in)
       ELSE [in EXCEPT !.pc = "ext_len", !.pos = r.pos, !.extension_type = r.val]

\* lines 172-177
ExtensionLen(s, st) ==
    LET r == ReadU16(s, st.pos) IN
    IF ~r.ok THEN TlsNone(st)
    ELSE [st EXCEPT !.pc = IF st.extension_type # SERVER_NAME
                           THEN "ext_skip" ELSE "sn_skip",
                    !.pos = r.pos, !.len = r.val]

\* lines 182-183
ServerName(s, st) ==
    LET r == ReadBytes(s, st.pos, st.len) IN
    IF ~r.ok THEN TlsNone(st)
    ELSE [st EXCEPT !.pc = "done", !.pos = r.pos,
                    !.res = IF Utf8Valid(r.val) THEN SomeSni(r.val) ELSE NoSni]

TlsStep(s, st) ==
    CASE st.pc = "rec_type" -> RecordType(s, st)
      [] st.pc = "rec_ver" -> VersionField(s, st, "rec_len")
      [] st.pc = "rec_len" -> RecordLen(s, st)
      [] st.pc = "rec_skip" -> DeclaredSkip(s, st, "rec_type")
      [] st.pc = "hs_loop" -> HandshakeLoop(st)
      [] st.pc = "hs_type" -> HandshakeType(s, st)
      [] st.pc = "hs_len" -> HandshakeLen(s, st)
      [] st.pc = "hs_skip" -> DeclaredSkip(s, st, "hs_loop")
      [] st.pc = "ch_ver" -> VersionField(s, st, "ch_random")
      [] st.pc = "ch_random" -> SkipIgnored(s, st, 32, "sid_len")
      [] st.pc = "sid_len" -> LenU8(s, st, "sid_skip")
      [] st.pc = "sid_skip" -> SkipIgnored(s, st, st.len, "cs_len")
      [] st.pc = "cs_len" -> LenU16(s, st, "cs_skip")
      [] st.pc = "cs_skip" -> SkipIgnored(s, st, st.len, "cm_len")
      [] st.pc = "cm_len" -> LenU8(s, st, "cm_skip")
      [] st.pc = "cm_skip" -> SkipIgnored(s, st, st.len, "exts_len")
      [] st.pc = "exts_len" -> ExtensionsLen(s, st)
      [] st.pc = "ext_loop" -> ExtensionLoop(st)
      [] st.pc = "ext_type" -> ExtensionType(s, st)
      [] st.pc = "ext_len" -> ExtensionLen(s, st)
      [] st.pc = "ext_skip" -> SkipIgnored(s, st, st.len, "ext_loop")
      [] st.pc = "sn_skip" -> SkipIgnored(s, st, 3, "sn_len")
      [] st.pc = "sn_len" -> LenU16(s, st, "sn_name")
      [] st.pc = "sn_name" -> ServerName(s, st)

RECURSIVE TlsRun(_, _)
TlsRun(s, st) ==
    IF st.pc = "done" THEN st ELSE TlsRun(s, TlsStep(s, st))

\* extract_tls_sni(&mut slr) on a cursor at offset `at`: the final state
extract_tls_sni(s, at) == TlsRun(s, TlsStart(at))

-----------------------------------------------------------------------------
(* Inputs: payloads built field by field.                                  *)

RECURSIVE Cat(_)
Cat(ss) == IF ss = <<>> THEN <<>> ELSE Head(ss) \o Cat(Tail(ss))

U16(n) == <<n \div 256, n % 256>>
U24(n) == <<n \div 65536, (n \div 256) % 256, n % 256>>
Zeros(n) == [i \in 1..n |-> 0]

\* names carried by server_name extensions and cookie values
N_a == <<97, 49>>         \* "a1"
N_b == <<98, 50>>         \* "b2"
N_x == <<120>>            \* "x"
N_bad == <<255>>          \* not UTF-8

\* a TLS record / handshake / extension with a declared length and a body
TlsRecord(type, ver, len, body) == <<type>> \o U16(ver) \o U16(len) \o body
HandshakeMsg(type, len, body) == <<type>> \o U24(len) \o body
Extension(type, len, body) == U16(type) \o U16(len) \o body
SniExtension(name) ==
    Extension(0, Len(name) + 5, U16(Len(name) + 3) \o <<0>> \o U16(Len(name)) \o name)

\* a ClientHello body: version, random, session id, cipher suites,
\* compression methods, extensions (lengths as declared by the arguments)
HelloBody(ver, sid, exts_len, exts) ==
    Cat(<<U16(ver), Zeros(32), <<Len(sid)>>, sid, U16(2), <<0, 47>>,
          <<1>>, <<0>>, U16(exts_len), exts>>)

\* a well-formed handshake record holding one message
HandshakeRecord(ver, type, body) ==
    TlsRecord(22, ver, Len(body) + 4, HandshakeMsg(type, Len(body), body))

\* a well-formed ClientHello record with the given extensions
HelloWith(ver, sid, exts) ==
    HandshakeRecord(771, 1, HelloBody(ver, sid, Len(exts), exts))

\* a well-formed TLS 1.2 ClientHello record with one server_name extension
Hello(name) == HelloWith(771, <<>>, SniExtension(name))

\* HTTP text
CRLF == <<13, 10>>
T_get == B_GET \o <<47>>                        \* "GET /"
T_post == B_POST \o <<47>>                      \* "POST /"
T_resp == B_HTTP \o <<49>>                      \* "HTTP/1"
T_put == <<80, 85, 84, 32, 47>>                 \* "PUT /"
T_host == <<72, 58, 32, 120>>                   \* "H: x"
T_other == <<102, 61, 49>>                      \* "f=1"
T_sep == <<59, 32>>                             \* "; "

RECURSIVE Lines(_, _)
Lines(ls, eol) == IF ls = <<>> THEN <<>> ELSE Head(ls) \o eol \o Lines(Tail(ls), eol)

\* a message head: start line, header lines, empty line
Http(first, hdrs) == Lines(<<first>> \o hdrs \o << <<>> >>, CRLF)

-----------------------------------------------------------------------------
(* The plugin: RustExample and its T2Plugin hooks.                         *)

MaxPackets == 3     \* packets delivered to the flow
MaxRawLen == 2      \* packet_raw_len ranges over 1..MaxRawLen
MaxDuration == 1    \* flow.duration() ranges over 0..MaxDuration

TCP == 6            \* L4Type::TCP as u8

\* payloads the host delivers to the flow
FlowPayloads ==
    { Http(T_get, <<B_Cookie \o B_PHPSESSID \o N_a>>),
      Http(T_resp, <<B_SetCookie \o B_PHPSESSID \o N_a>>),
      Http(T_post, <<T_host, B_Cookie \o T_other \o T_sep \o B_PHPSESSID \o N_b>>),
      Http(T_get, <<B_Cookie \o T_other, B_Cookie \o B_PHPSESSID \o N_b>>),
      Http(T_get, <<B_Cookie \o B_PHPSESSID \o N_bad>>),
      Http(T_put, <<B_Cookie \o B_PHPSESSID \o N_a>>),
      Hello(N_a),
      Hello(N_b),
      Hello(<<>>),
      Hello(N_x),
      Hello(N_bad),
      SubSeq(Hello(N_a), 1, Len(Hello(N_a)) - 1),
      TlsRecord(23, 771, 2, Zeros(2)) \o Hello(N_a),
      TlsRecord(23, 771, 500, <<>>) \o Hello(N_b),
      Http(T_get, <<B_Cookie \o B_PHPSESSID \o N_a>>) \o Hello(N_b),
      <<0>> }

\* payloads delivered in packets of every on-wire length
SizedPayloads ==
    { Http(T_get, <<B_Cookie \o B_PHPSESSID \o N_a>>),
      Hello(N_a),
      SubSeq(Hello(N_a), 1, Len(Hello(N_a)) - 1) }

\* TCP packets with a payload, a UDP packet, a TCP packet without payload
Packets ==
    [packet_raw_len : 1..MaxRawLen, l4_type : {TCP}, l7 : SizedPayloads]
        \cup [packet_raw_len : {1}, l4_type : {TCP}, l7 : FlowPayloads]
        \cup [packet_raw_len : {MaxRawLen}, l4_type : {17}, l7 : {Hello(N_a)}]
        \cup [packet_raw_len : {MaxRawLen}, l4_type : {TCP}, l7 : {<<>>}]

\* line 225
Qualifies_anyL4(p) == Len(p.l7) > 0

Qualifies(p) == Len(p.l7) > 0 /\ p.l4_type = TCP

\* line 230: self.php_ids.insert((set_cookie, phpid.to_string()))
InsertPhpid_byValue(ids, r) ==
    IF \E e \in ids : e[2] = r.val THEN ids ELSE ids \cup {<<r.set_cookie, r.val>>}

InsertPhpid(ids, r) == ids \cup {<<r.set_cookie, r.val>>}

\* line 222: self.byte_count += packet.packet_raw_len as u64
AddBytes_payload(count, p) == count + Len(p.l7)

AddBytes(count, p) == count + p.packet_raw_len

\* line 238: the SNI extractor runs only while no SNI is recorded
SniUnset_always(sni_now) == TRUE

SniUnset(sni_now) == Len(sni_now) = 0

\* line 234: the offset handed to rewind
RewindTo(pos) == pos

\* lines 226-242: the extractor results for one qualifying payload, given
\* the flow's current SNI: php, the cursor after the rewind, whether the
\* SNI extractor ran and what it returned, whether unwrap() panicked
RunExtractors_sniIfNoCookie(s, sni_now) ==
    LET php == extract_phpid(s)
        rw == Rewind(s, php.pos, RewindTo(php.pos))
        run == SniUnset(sni_now) /\ ~php.res.some
        tls == extract_tls_sni(s, rw.pos)
    IN [php |-> php.res,
        at |-> rw.pos,
        sni_run |-> run,
        sni |-> IF run THEN tls.res ELSE NoSni,
        panic |-> php.panic \/ ~rw.ok]

RunExtractors(s, sni_now) ==
    LET php == extract_phpid(s)
        rw == Rewind(s, php.pos, RewindTo(php.pos))
        run == SniUnset(sni_now)
        tls == extract_tls_sni(s, rw.pos)
    IN [php |-> php.res,
        at |-> rw.pos,
        sni_run |-> run,
        sni |-> IF run THEN tls.res ELSE NoSni,
        panic |-> php.panic \/ ~rw.ok]

NotRun == [php |-> NoPhpid, at |-> 0, sni_run |-> FALSE, sni |-> NoSni,
           panic |-> FALSE]

\* the observer of the hook calls: the number of claim_l4_info calls, the
\* packet and the extractor results of the latest one, the number of
\* qualifying packets and the sum of the on-wire lengths so far, and the
\* duration on_flow_terminate was called with (-1 before the call)
NoCall ==
    [n |-> 0, packet |-> [packet_raw_len |-> 0, l4_type |-> 17, l7 |-> <<>>],
     x |-> NotRun, q |-> 0, sum |-> 0, duration |-> -1]

\* T2Plugin::new (lines 193-199)
new ==
    /\ byte_count = 0
    /\ php_ids = {}
    /\ tls_sni = <<>>

\* claim_l4_info (lines 220-244)
claim_l4_info(p) ==
    /\ phase = "open"
    /\ last.n < MaxPackets
    /\ LET x == IF Qualifies(p) THEN RunExtractors(p.l7, tls_sni) ELSE NotRun IN
       /\ byte_count' = AddBytes(byte_count, p)
       /\ php_ids' = IF x.php.some THEN InsertPhpid(php_ids, x.php) ELSE php_ids
       /\ tls_sni' = IF x.sni_run /\ x.sni.some THEN x.sni.val ELSE tls_sni
       /\ last' = [n |-> last.n + 1, packet |-> p, x |-> x,
                   q |-> IF Len(p.l7) > 0 /\ p.l4_type = TCP
                         THEN last.q + 1 ELSE last.q,
                   sum |-> last.sum + p.packet_raw_len,
                   duration |-> last.duration]
       /\ sni_results' = IF x.sni_run /\ x.sni.some
                         THEN Append(sni_results, x.sni.val) ELSE sni_results
       /\ php_results' = IF x.php.some
                         THEN php_results \cup {<<x.php.set_cookie, x.php.val>>}
                         ELSE php_results
    /\ UNCHANGED <<phase, output, parseVars>>

\* the columns written by output_num / output_string, in call order
F64(div, n, d) == [t |-> "f64", div |-> div, n |-> n, d |-> d, s |-> <<>>]
Num(t, n) == [t |-> t, div |-> FALSE, n |-> n, d |-> 1, s |-> <<>>]
Str(s) == [t |-> "str", div |-> FALSE, n |-> 0, d |-> 1, s |-> s]

\* lines 248-254
Throughput_nonNegative(duration) ==
    IF duration >= 0 THEN F64(TRUE, byte_count, duration) ELSE F64(FALSE, 0, 1)

Throughput(duration) ==
    IF duration > 0 THEN F64(TRUE, byte_count, duration) ELSE F64(FALSE, 0, 1)

\* lines 260-263
RECURSIVE OutputPairs(_)
OutputPairs(v) ==
    IF v = <<>> THEN <<>>
    ELSE <<Num("u8", IF Head(v)[1] THEN 1 ELSE 0), Str(Head(v)[2])>>
             \o OutputPairs(Tail(v))

\* line 257: the orders in which drain() may yield the set
Drains(ids) ==
    {v \in [1..Cardinality(ids) -> ids] : \A e \in ids : \E i \in DOMAIN v : v[i] = e}

\* line 257: what drain() leaves in the set
Drained_kept(ids) == ids

Drained(ids) == {}

\* lines 248-266: the columns in call order, v being the drained pairs
Columns_sniFirst(duration, v) ==
    Cat(<< <<Str(tls_sni)>>,
           <<Throughput(duration)>>,
           <<Num("u32", Len(v))>>,
           OutputPairs(v) >>)

Columns(duration, v) ==
    Cat(<< <<Throughput(duration)>>,
           <<Num("u32", Len(v))>>,
           OutputPairs(v),
           <<Str(tls_sni)>> >>)

\* on_flow_terminate (lines 246-267)
on_flow_terminate(duration) ==
    /\ phase = "open"
    /\ \E v \in Drains(php_ids) : output' = Columns(duration, v)
    /\ php_ids' = Drained(php_ids)
    /\ phase' = "closed"
    /\ last' = [last EXCEPT !.duration = duration]
    /\ UNCHANGED <<byte_count, tls_sni, sni_results, php_results, parseVars>>

ParseIdle ==
    /\ payload = <<>>
    /\ hs = PhpidStart
    /\ ts = TlsStart(0)

Init ==
    /\ new
    /\ phase = "open"
    /\ output = <<>>
    /\ last = NoCall
    /\ sni_results = <<>>
    /\ php_results = {}
    /\ ParseIdle

Packet == \E p \in Packets : claim_l4_info(p)

Terminate == \E d \in 0..MaxDuration : on_flow_terminate(d)

Next == Packet \/ Terminate

Spec == Init /\ [][Next]_vars

-----------------------------------------------------------------------------
(* The extractors step by step over one payload: extract_phpid from offset *)
(* 0, then extract_tls_sni either on a fresh cursor or on the cursor as    *)
(* claim_l4_info hands it over (lines 233-239).                            *)

MaxHdrs == 2        \* header lines of a generated HTTP message
MaxSid == 1         \* session id lengths 0..MaxSid of a generated ClientHello

\* every non-empty prefix of a payload: the payload cut at each byte
Cuts(s) == {SubSeq(s, 1, k) : k \in 1..Len(s)}

HeaderLines ==
    { T_host,
      <<>>,
      B_Cookie \o B_PHPSESSID \o N_a,
      B_Cookie \o T_other,
      B_Cookie \o T_other \o T_sep \o B_PHPSESSID \o N_b,
      B_SetCookie \o B_PHPSESSID \o N_a,
      B_SetCookie \o T_other,
      B_Cookie \o B_PHPSESSID \o N_bad \o T_sep \o B_PHPSESSID \o N_a,
      B_Cookie,
      <<32>> \o B_Cookie \o B_PHPSESSID,
      B_Cookie \o SubSeq(B_PHPSESSID, 1, 9) }

StartLines == {T_get, T_post, T_resp, T_put, SubSeq(T_get, 1, 3), <<>>}

HeaderLists == UNION {[1..n -> HeaderLines] : n \in 0..MaxHdrs}

HttpPayloads ==
    {Http(f, h) : f \in StartLines, h \in HeaderLists}
        \cup {Lines(<<T_get, B_Cookie \o T_other, l>>, <<10>>) : l \in HeaderLines}
        \cup Cuts(Http(T_resp, <<T_host, B_SetCookie \o B_PHPSESSID \o N_a>>))

\* records that may precede the ClientHello record
Preludes ==
    { <<>>,
      TlsRecord(23, 771, 2, Zeros(2)),            \* application data
      TlsRecord(23, 771, 0, <<>>),                \* empty application data
      TlsRecord(23, 771, 10, Zeros(10)),          \* its length byte is a line feed
      TlsRecord(23, 771, 500, <<>>),              \* declared longer than the payload
      TlsRecord(23, 256, 2, Zeros(2)),            \* unknown record version
      TlsRecord(22, 771, 0, <<>>),                \* empty handshake record
      HandshakeRecord(769, 2, Zeros(2)),          \* a ServerHello
      TlsRecord(22, 771, 300, HandshakeMsg(2, 300, <<>>)),
      Http(T_get, <<B_Cookie \o B_PHPSESSID \o N_a>>) }

ExtensionLists ==
    { <<>>,
      SniExtension(N_a),
      SniExtension(N_x),
      SniExtension(<<>>),
      SniExtension(N_bad),
      Extension(11, 2, Zeros(2)) \o SniExtension(N_a),
      Extension(11, 400, <<>>) \o SniExtension(N_a),
      SniExtension(N_a) \o SniExtension(N_b),
      Extension(0, 7, U16(5) \o <<0>> \o U16(9) \o N_a) }

HelloVersions == {771, 768, 256, 772}

TlsPayloads ==
    {pre \o HelloWith(v, <<>>, e) \o Hello(N_b) :
         pre \in Preludes, v \in HelloVersions, e \in ExtensionLists}
        \cup {HelloWith(771, Zeros(n), SniExtension(N_a)) : n \in 0..MaxSid}
        \cup {TlsRecord(22, 771, 90,
                        HandshakeMsg(2, 1, <<0>>)
                            \o HandshakeMsg(1, 61, HelloBody(771, <<>>, 400, SniExtension(N_a))))}
        \cup {TlsRecord(22, 771, 4, HandshakeMsg(1, 60, <<>>))
                  \o HelloBody(771, <<>>, 0, <<>>) \o Hello(N_a)}
        \cup Cuts(Hello(N_a))
        \cup Cuts(TlsRecord(23, 771, 2, Zeros(2)) \o HandshakeRecord(771, 2, Zeros(2)))

ParsePayloads == HttpPayloads \cup TlsPayloads

Waiting == [TlsStart(0) EXCEPT !.pc = "wait"]

ParseInit ==
    /\ new
    /\ phase = "off"
    /\ output = <<>>
    /\ last = NoCall
    /\ sni_results = <<>>
    /\ php_results = {}
    /\ payload \in ParsePayloads
    /\ hs = PhpidStart
    /\ ts = Waiting

\* one step of extract_phpid
PhpidAdvance ==
    /\ hs.pc # "done"
    /\ hs' = PhpidStep(payload, hs)
    /\ UNCHANGED <<payload, ts, flowVars>>

\* extract_tls_sni called on SliceReader::new(payload)
FreshSni ==
    /\ hs.pc = "done"
    /\ ts.pc = "wait"
    /\ ts' = TlsStart(0)
    /\ UNCHANGED <<payload, hs, flowVars>>

\* extract_tls_sni called as at line 239, after lines 234-235
PacketSni ==
    /\ hs.pc = "done"
    /\ ts.pc = "wait"
    /\ ts' = TlsStart(Rewind(payload, hs.pos, RewindTo(hs.pos)).pos)
    /\ UNCHANGED <<payload, hs, flowVars>>

\* one step of extract_tls_sni
TlsAdvance ==
    /\ ts.pc \notin {"wait", "done"}
    /\ ts' = TlsStep(payload, ts)
    /\ UNCHANGED <<payload, hs, flowVars>>

ParseNext == PhpidAdvance \/ FreshSni \/ PacketSni \/ TlsAdvance

SpecParse == ParseInit /\ [][ParseNext]_vars

-----------------------------------------------------------------------------
(* Properties of the flow hooks, checked under Spec.                       *)

\* the column written last by on_flow_terminate
EmittedSni == output[Len(output)].s

\* the first non-empty element of a sequence of names, <<>> if there is none
RECURSIVE FirstNonEmpty(_)
FirstNonEmpty(rs) ==
    IF rs = <<>> THEN <<>>
    ELSE IF Head(rs) # <<>> THEN Head(rs) ELSE FirstNonEmpty(Tail(rs))

\* C1 as stated: once extract_tls_sni has returned a result for a packet of
\* the flow, tls_sni is that first result and stays it, and it is the SNI
\* on_flow_terminate emits.
C1_FirstResultWins ==
    sni_results # <<>> =>
        /\ tls_sni = sni_results[1]
        /\ phase = "closed" => EmittedSni = sni_results[1]

\* C1 amended: tls_sni is always the first NON-EMPTY name extract_tls_sni has
\* returned for the flow (empty while there is none), so once a non-empty name
\* is stored no later packet changes it, and it is the SNI emitted at
\* on_flow_terminate.  A returned empty name leaves the SNI unset.
C1_FirstNonEmptyResultWins ==
    /\ tls_sni = FirstNonEmpty(sni_results)
    /\ phase = "closed" => EmittedSni = FirstNonEmpty(sni_results)

\* a flow that recorded "a1", then received a ClientHello naming "b2", closed
C1_Witness ==
    /\ phase = "closed"
    /\ last.n >= 2
    /\ Qualifies(last.packet)
    /\ last.packet.l7 = Hello(N_b)
    /\ sni_results = <<N_a>>
    /\ EmittedSni = N_a

\* the (origin, value) pairs on_flow_terminate wrote after the count
EmittedPairs ==
    {<<output[2 * i + 1].n = 1, output[2 * i + 2].s>> : i \in 1..output[2].n}

\* C2: the count emitted for the cookie column is the number of distinct
\* (origin, value) pairs extract_phpid returned over the flow, the pairs
\* emitted are exactly those pairs, each once, and one value seen with both
\* origins is two records.
C2_CookieColumn ==
    phase = "closed" =>
        /\ output[2].t = "u32"
        /\ output[2].n = Cardinality(php_results)
        /\ Len(output) = 3 + 2 * output[2].n
        /\ EmittedPairs = php_results
        /\ \A i \in 1..output[2].n :
              output[2 * i + 1].t = "u8" /\ output[2 * i + 2].t = "str"

\* three packets, the last returning a pair; "a1" was seen as request cookie
\* and as response cookie and is emitted as two records
C2_Witness ==
    /\ phase = "closed"
    /\ last.n = 3
    /\ last.x.php.some
    /\ php_results = {<<FALSE, N_a>>, <<TRUE, N_a>>}
    /\ output[2].n = 2

\* C3: a qualifying packet on which extract_phpid and extract_tls_sni both
\* return nothing leaves the cookie set and the SNI as they were and adds
\* exactly its on-wire length to the byte counter.
C3_FailedAttemptKeepsState ==
    [][(/\ last'.n = last.n + 1
        /\ Qualifies(last'.packet)
        /\ ~extract_phpid(last'.packet.l7).res.some
        /\ last'.x.sni_run
        /\ ~last'.x.sni.some)
       => (/\ php_ids' = php_ids
           /\ tls_sni' = tls_sni
           /\ byte_count' = byte_count + last'.packet.packet_raw_len)]_vars

\* a truncated ClientHello arrived at a flow that already holds a cookie:
\* both extractors returned nothing
C3_Witness ==
    /\ phase = "open"
    /\ last.n >= 2
    /\ Qualifies(last.packet)
    /\ last.packet.l7 = SubSeq(Hello(N_a), 1, Len(Hello(N_a)) - 1)
    /\ ~last.x.php.some
    /\ last.x.sni_run
    /\ ~last.x.sni.some
    /\ php_ids # {}
    /\ byte_count > last.packet.packet_raw_len

-----------------------------------------------------------------------------
(* Properties of the extractors, checked under SpecParse.                  *)

PhpidDone == hs.pc = "done"
TlsDone == ts.pc = "done"

\* s holds sub as a contiguous run of bytes
Contains(s, sub) ==
    \E i \in 0..(Len(s) - Len(sub)) : SubSeq(s, i + 1, i + Len(sub)) = sub

\* C4: on every payload, truncated ones included, no cursor operation leaves
\* the offset beyond the slice, the slice expressions line[len ..] and
\* cookie[10 ..] are in range, and rewind(pos).unwrap() does not fail.
C4_NoPanicNoOverrun ==
    /\ hs.pos <= Len(payload)
    /\ ts.pos <= Len(payload)
    /\ ~hs.panic
    /\ PhpidDone => Rewind(payload, hs.pos, RewindTo(hs.pos)).ok

\* one payload on which a cookie line was sliced and its value returned, and
\* on which the SNI extractor then ran into the end of the slice
C4_Witness ==
    /\ PhpidDone
    /\ hs.cookie_lines = 1
    /\ hs.res.some
    /\ TlsDone
    /\ ts.fail
    /\ ts.pos = Len(payload)

\* C5 as stated: once a cursor operation of extract_tls_sni has failed on
\* bounds (a read or a skip), the function returns nothing.
C5_NothingAfterBoundsFailure ==
    (TlsDone /\ ts.fail) => ~ts.res.some

\* the header lines of a payload (line-feed terminated, start line dropped)
HeaderLinesOf(s) ==
    LET pieces == Split(s, 10) IN
    IF Len(pieces) <= 2 THEN <<>> ELSE SubSeq(pieces, 2, Len(pieces) - 1)

IsCookieLine(l) ==
    StartsWith(Trim(l), B_Cookie) \/ StartsWith(Trim(l), B_SetCookie)

HasCookieLine(s) == \E i \in DOMAIN HeaderLinesOf(s) : IsCookieLine(HeaderLinesOf(s)[i])

FirstCookieLine(s) ==
    LET ls == HeaderLinesOf(s)
        at == CHOOSE i \in DOMAIN ls :
                  IsCookieLine(ls[i]) /\ \A j \in 1..(i - 1) : ~IsCookieLine(ls[j])
    IN ls[at]

\* C7: extract_phpid inspects at most one Cookie/Set-Cookie line and stops
\* at it; when the first such line of the payload holds no PHPSESSID=,
\* nothing is returned, whatever the later lines hold.
C7_OnlyFirstCookieLine ==
    /\ hs.cookie_lines <= 1
    /\ hs.cookie_lines = 1 => PhpidDone
    /\ (PhpidDone /\ HasCookieLine(payload)
            /\ ~Contains(FirstCookieLine(payload), B_PHPSESSID))
           => ~hs.res.some

\* "GET /", "Cookie: f=1", "Cookie: PHPSESSID=a1": the second cookie line
\* is not reached
C7_Witness ==
    /\ payload = Lines(<<T_get, B_Cookie \o T_other, B_Cookie \o B_PHPSESSID \o N_a>>,
                       <<10>>)
    /\ PhpidDone
    /\ hs.cookie_lines = 1
    /\ hs.pos < Len(payload)
    /\ ~hs.res.some

\* C8: a payload that does not start with "GET ", "POST " or "HTTP/" yields
\* nothing from extract_phpid.
C8_NotHttpNoCookie ==
    (/\ PhpidDone
     /\ ~StartsWith(payload, B_GET)
     /\ ~StartsWith(payload, B_POST)
     /\ ~StartsWith(payload, B_HTTP))
        => ~hs.res.some

\* "PUT /" followed by a Cookie line holding a PHPSESSID
C8_Witness ==
    /\ payload = Http(T_put, <<B_Cookie \o B_PHPSESSID \o N_a>>)
    /\ PhpidDone
    /\ hs.pos > 0
    /\ ~hs.res.some

\* the 2-byte field at the cursor is readable and none of 0x0300..0x0303
UnknownVersionAhead ==
    /\ ts.pc \in {"rec_ver", "ch_ver"}
    /\ ts.pos + 2 <= Len(payload)
    /\ payload[ts.pos + 1] * 256 + payload[ts.pos + 2] \notin {768, 769, 770, 771}

\* C9: a record version or ClientHello version outside 0x0300..0x0303 ends
\* extract_tls_sni at that field with no result; nothing after it is read.
C9_UnknownVersionHalts ==
    [][UnknownVersionAhead =>
          (/\ ts'.pc = "done"
           /\ ~ts'.res.some
           /\ ts'.pos = ts.pos + 2)]_vars

\* a ClientHello asking for version 0x0100, followed by a well-formed
\* ClientHello record naming "b2": the run ended inside the first record
C9_Witness ==
    /\ payload = HelloWith(256, <<>>, SniExtension(N_a)) \o Hello(N_b)
    /\ ts.begin = 0
    /\ TlsDone
    /\ ~ts.fail
    /\ ~ts.res.some
    /\ ts.pos = 11

\* C10: extract_phpid and extract_tls_sni terminate on every payload: each
\* body of the header-line, record, handshake and extension loops is entered
\* with the cursor strictly beyond where it was at the previous entry of
\* that loop (also after a skip that failed and was ignored), the cursor
\* never passes the end of the payload, and the bodies entered are at most
\* as many as the payload has bytes.
C10_Terminates ==
    /\ hs.pc = "hdr" => hs.pos > hs.head
    /\ ts.pc = "rec_type" => ts.pos > ts.rec_head
    /\ ts.pc = "hs_type" => ts.pos > ts.hs_head
    /\ ts.pc = "ext_type" => ts.pos > ts.ext_head
    /\ hs.pos <= Len(payload) /\ ts.pos <= Len(payload)
    /\ hs.iters <= Len(payload)
    /\ ts.iters <= Len(payload)

\* a run that went round the record loop after a failed skip and ended
C10_Witness ==
    /\ payload = TlsRecord(23, 771, 500, <<>>)
                     \o HelloWith(771, <<>>, SniExtension(N_a)) \o Hello(N_b)
    /\ ts.begin = 0
    /\ TlsDone
    /\ ts.fail
    /\ ts.iters >= 3

-----------------------------------------------------------------------------
(* The hand-over between the two extractors in claim_l4_info, under Spec.  *)

\* C6 as stated: whenever claim_l4_info runs the SNI extractor, it starts at
\* the payload start whatever extract_phpid consumed, so its result is that
\* of extract_tls_sni on a fresh cursor over the same payload.
C6_SniFromPayloadStart ==
    (last.n > 0 /\ Qualifies(last.packet) /\ last.x.sni_run) =>
        last.x.sni = extract_tls_sni(last.packet.l7, 0).res

-----------------------------------------------------------------------------
\* the index of the first Cookie/Set-Cookie line of the header section of a
\* payload (the lines before the first line that is empty once trimmed),
\* 0 when the section has none
HeaderCookieAt(s) ==
    LET ls == HeaderLinesOf(s)
        hits == {i \in DOMAIN ls :
                     /\ IsCookieLine(ls[i])
                     /\ \A j \in 1..(i - 1) :
                            ~IsCookieLine(ls[j]) /\ Trim(ls[j]) # <<>>}
    IN IF hits = {} THEN 0 ELSE CHOOSE i \in hits : TRUE

\* the pieces of a cookie line: what follows the header name, split on ';',
\* each piece trimmed
CookiePieces(l) ==
    LET line == Trim(l)
        rest == Drop(line, IF StartsWith(line, B_SetCookie) THEN 12 ELSE 8)
        pieces == Split(rest, 59)
    IN [i \in DOMAIN pieces |-> Trim(pieces[i])]

HasPhpPiece(l) ==
    \E i \in DOMAIN CookiePieces(l) : StartsWith(CookiePieces(l)[i], B_PHPSESSID)

\* the suffix after "PHPSESSID=" of the first piece that has this prefix
FirstPhpSuffix(l) ==
    LET ps == CookiePieces(l)
        at == CHOOSE i \in DOMAIN ps :
                  /\ StartsWith(ps[i], B_PHPSESSID)
                  /\ \A j \in 1..(i - 1) : ~StartsWith(ps[j], B_PHPSESSID)
    IN Drop(ps[at], Len(B_PHPSESSID))

\* C11: for a payload whose first line starts with "GET ", "POST " or
\* "HTTP/" and whose first Cookie/Set-Cookie header line has a ';'-separated
\* trimmed piece with prefix "PHPSESSID=", extract_phpid returns the suffix
\* of the first such piece with the flag FALSE for "Cookie: " and TRUE for
\* "Set-Cookie: "; when the suffix is not valid UTF-8 it returns nothing.
C11_FirstPhpsessidPiece ==
    LET at == HeaderCookieAt(payload)
        l == HeaderLinesOf(payload)[at]
    IN (/\ PhpidDone
        /\ StartsWith(payload, B_GET) \/ StartsWith(payload, B_POST)
              \/ StartsWith(payload, B_HTTP)
        /\ at > 0
        /\ HasPhpPiece(l))
       => IF Utf8Valid(FirstPhpSuffix(l))
          THEN hs.res = [some |-> TRUE,
                         set_cookie |-> StartsWith(Trim(l), B_SetCookie),
                         val |-> FirstPhpSuffix(l)]
          ELSE ~hs.res.some

\* "POST /", "H: x", "Cookie: f=1; PHPSESSID=b2": the second piece of the
\* cookie line is returned with the flag FALSE
C11_Witness ==
    /\ payload = Http(T_post, <<T_host, B_Cookie \o T_other \o T_sep \o B_PHPSESSID \o N_b>>)
    /\ PhpidDone
    /\ hs.res = SomePhpid(FALSE, N_b)


\* the header line a returned cookie record was taken from
SourceLine(s) == Trim(HeaderLinesOf(s)[HeaderCookieAt(s)])

C13_NameAfterDeclaredSkips ==
    (TlsDone /\ ts.res.some) =>
        /\ ts.handshake_type = CLIENT_HELLO
        /\ ts.extension_type = SERVER_NAME
        /\ SubSeq(payload, ts.pos - Len(ts.res.val) + 1, ts.pos) = ts.res.val
        /\ ts.unskipped = 0

-----------------------------------------------------------------------------
\* C14: the columns emitted by on_flow_terminate are, in this order, the
\* throughput number, the cookie count, one (u8, string) pair per counted
\* cookie, and the SNI string; a flow that received no qualifying packet
\* emits exactly a throughput, the count 0 and the empty SNI string.
C14_EmissionOrder ==
    phase = "closed" =>
        LET k == (Len(output) - 3) \div 2 IN
        /\ Len(output) >= 3
        /\ Len(output) = 3 + 2 * k
        /\ output[1].t = "f64"
        /\ output[2] = Num("u32", k)
        /\ \A i \in 1..k : output[2 * i + 1].t = "u8" /\ output[2 * i + 2].t = "str"
        /\ output[Len(output)] = Str(tls_sni)
        /\ last.q = 0 =>
               /\ output[1].t = "f64"
               /\ output[2] = Num("u32", 0)
               /\ output[3] = Str(<<>>)
               /\ Len(output) = 3

\* a flow closed after a UDP packet and a TCP packet without payload
C14_Witness ==
    /\ phase = "closed"
    /\ last.n = 2
    /\ last.q = 0
    /\ byte_count = 2 * MaxRawLen
    /\ Len(output) = 3
    /\ output[3] = Str(<<>>)

\* C15: on_flow_terminate emits the throughput 0 without dividing when the
\* duration is zero, whatever the byte counter holds; it divides byte_count
\* by the duration exactly when the duration is greater than zero.
C15_NoDivisionByZero ==
    phase = "closed" =>
        /\ last.duration = 0 => ~output[1].div /\ output[1].n = 0
        /\ output[1].div <=> last.duration > 0
        /\ output[1].div => output[1].n = byte_count /\ output[1].d = last.duration

\* a flow with bytes counted, closed with duration zero
C15_Witness ==
    /\ phase = "closed"
    /\ last.duration = 0
    /\ byte_count > 0
    /\ output[1] = F64(FALSE, 0, 1)

\* C16: every claim_l4_info call adds the packet's on-wire length to the
\* byte counter, so the counter never decreases and equals the sum of the
\* on-wire lengths of all packets seen; a packet that is not TCP or has an
\* empty payload runs no extractor and leaves the cookie set and the SNI
\* as they were.
C16_CountsEveryPacket ==
    [][last'.n = last.n + 1 =>
          /\ byte_count' = byte_count + last'.packet.packet_raw_len
          /\ byte_count' >= byte_count
          /\ byte_count' = last'.sum
          /\ (last'.packet.l4_type # TCP \/ Len(last'.packet.l7) = 0) =>
                 /\ last'.x = NotRun
                 /\ php_ids' = php_ids
                 /\ tls_sni' = tls_sni]_vars

\* a UDP packet with a payload, counted after a packet that stored a cookie
C16_Witness ==
    /\ phase = "open"
    /\ last.n = 2
    /\ last.q = 1
    /\ last.packet.l4_type # TCP
    /\ Len(last.packet.l7) > 0
    /\ php_ids # {}
    /\ byte_count = last.sum
    /\ byte_count > MaxRawLen

-----------------------------------------------------------------------------
\* the payload has a header line that is empty once trimmed, with no
\* Cookie/Set-Cookie line before it
EmptyLineFirst(s) ==
    LET ls == HeaderLinesOf(s) IN
    \E i \in DOMAIN ls :
        /\ Trim(ls[i]) = <<>>
        /\ \A j \in 1..(i - 1) : ~IsCookieLine(ls[j])

\* C17: an empty header line ends the header scan of extract_phpid with no
\* result: no Cookie/Set-Cookie line behind the first empty line is
\* inspected, and nothing is returned from it.
C17_EmptyLineEndsScan ==
    (PhpidDone /\ EmptyLineFirst(payload)) =>
        /\ ~hs.res.some
        /\ hs.cookie_lines = 0

\* "GET /", "", "Cookie: PHPSESSID=a1", "": the scan stops at the empty line
C17_Witness ==
    /\ payload = Http(T_get, << <<>>, B_Cookie \o B_PHPSESSID \o N_a >>)
    /\ PhpidDone
    /\ ~hs.res.some
    /\ ~hs.fail
    /\ hs.iters = 1
    /\ hs.pos < Len(payload)

-----------------------------------------------------------------------------
\* C18 as stated: once on_flow_terminate has emitted the output, the cookie
\* set is empty, the SNI is the empty string and the byte counter is zero.
C18_StateReset ==
    phase = "closed" =>
        /\ php_ids = {}
        /\ tls_sni = <<>>
        /\ byte_count = 0

\* C18: once on_flow_terminate has emitted the output, the cookie set is
\* empty, while the SNI and the byte counter keep the values they had: a
\* second emission would report no cookie, the same SNI and a throughput
\* computed from the same byte counter.
C18_OnlyCookiesDrained ==
    phase = "closed" =>
        /\ php_ids = {}
        /\ tls_sni = output[Len(output)].s
        /\ byte_count = last.sum
        /\ Columns(1, <<>>) =
               <<F64(TRUE, last.sum, 1), Num("u32", 0), output[Len(output)]>>

\* a closed flow that had emitted a cookie and holds an SNI and a byte count
C18_Witness ==
    /\ phase = "closed"
    /\ Len(output) > 3
    /\ php_ids = {}
    /\ tls_sni # <<>>
    /\ byte_count > 0

-----------------------------------------------------------------------------
\* C19: once tls_sni holds a non-empty string, no later claim_l4_info call
\* changes it or runs extract_tls_sni; while tls_sni is empty,
\* extract_tls_sni runs on every qualifying packet, whether or not
\* extract_phpid returned a record for it.
C19_SniRunsWhileUnset ==
    [][last'.n = last.n + 1 =>
          /\ tls_sni # <<>> => tls_sni' = tls_sni /\ ~last'.x.sni_run
          /\ (/\ tls_sni = <<>>
              /\ last'.packet.l4_type = TCP
              /\ Len(last'.packet.l7) > 0) => last'.x.sni_run]_vars

\* a packet that gave a cookie record, on which extract_tls_sni ran as well
C19_Witness ==
    /\ last.n >= 1
    /\ last.x.php.some
    /\ last.x.sni_run
    /\ php_ids # {}

-----------------------------------------------------------------------------
\* C20: every name returned by extract_tls_sni lies inside the declared
\* bounds that enclose it: the name ends at or before extensions_end of its
\* ClientHello, and the ClientHello ends at or before handshakes_end of its
\* handshake record.
C20_NameInsideDeclaredBounds ==
    (TlsDone /\ ts.res.some) =>
        /\ ts.pos <= ts.extensions_end
        /\ ts.hello_end <= ts.handshakes_end

=============================================================================
